---- MODULE Spec2Model ----
(***************************************************************************)
(* Model of the kick-out plugin (src/src/main.rs): the State struct and    *)
(* ZellijPlugin::update, the handler the host calls once per event.        *)
(* Strings are sequences of Unicode code points; indices into Rust Vecs    *)
(* are 0-based as in the source (element i of a Vec is v[i + 1] here).     *)
(***************************************************************************)
EXTENDS Integers, Sequences, FiniteSets, TLC

\* ---------------------------------------------------------------- bounds
MaxFilter == 2
MaxTabs == 2
MaxManifest == 2
MaxIndex == 2

\* ---------------------------------------------------------------- inputs
\* 'A' and the two-byte 'e-acute' (U+00E9)
Chars == {65, 233}

TabNames == {"x", "y"}

\* the pane entries a PaneManifest may carry (a pane appears once in a manifest)
PaneInfos ==
    { [id |-> 0, is_plugin |-> FALSE, is_selectable |-> TRUE,  title |-> <<97, 65, 97>>],
      [id |-> 0, is_plugin |-> TRUE,  is_selectable |-> TRUE,  title |-> <<233, 97>>],
      [id |-> 1, is_plugin |-> TRUE,  is_selectable |-> FALSE, title |-> <<65>>] }

BareKeys == {"Char", "Backspace", "Enter", "Tab", "Down", "Up", "Right", "Left", "Esc"}

SeqsUpTo(S, n) == UNION { [1..k -> S] : k \in 0..n }

\* the sequences of at most n elements of S without repetition
Arrangements(S, n) ==
    { s \in SeqsUpTo(S, n) : \A a, b \in 1..Len(s) : a # b => s[a] # s[b] }

\* ---------------------------------------------------------------- Option<usize>
None == [some |-> FALSE, v |-> 0]
Some(i) == [some |-> TRUE, v |-> i]

\* usize::saturating_sub
saturating_sub(a, b) == IF a >= b THEN a - b ELSE 0

\* ---------------------------------------------------------------- strings
\* char::to_lowercase for one code point (a sequence: it may expand)
LowerChar(c) ==
    IF c \in 65..90 THEN <<c + 32>>
    ELSE IF c \in 192..222 /\ c # 215 THEN <<c + 32>>
    ELSE IF c = 304 THEN <<105, 775>>
    ELSE <<c>>

RECURSIVE to_lowercase(_)
to_lowercase(s) ==
    IF s = <<>> THEN <<>> ELSE LowerChar(Head(s)) \o to_lowercase(Tail(s))

\* number of bytes of the UTF-8 encoding of one code point
Utf8Len(c) == IF c < 128 THEN 1 ELSE IF c < 2048 THEN 2 ELSE IF c < 65536 THEN 3 ELSE 4

RECURSIVE ByteLen(_)
ByteLen(s) == IF s = <<>> THEN 0 ELSE Utf8Len(Head(s)) + ByteLen(Tail(s))

\* str::chars().count()
chars_count(s) == Len(s)

\* needle occurs in hay at 0-based char position i
OccursAt(hay, needle, i) ==
    /\ i + Len(needle) <= Len(hay)
    /\ \A j \in 1..Len(needle) : hay[i + j] = needle[j]

\* str::match_indices: the byte offsets of the occurrences found by a
\* left-to-right scan that resumes after the end of each occurrence found
RECURSIVE MatchIndicesFrom(_, _, _)
MatchIndicesFrom(hay, needle, i) ==
    IF i + Len(needle) > Len(hay) THEN <<>>
    ELSE IF OccursAt(hay, needle, i)
         THEN <<ByteLen(SubSeq(hay, 1, i))>>
              \o MatchIndicesFrom(hay, needle, i + (IF Len(needle) = 0 THEN 1 ELSE Len(needle)))
         ELSE MatchIndicesFrom(hay, needle, i + 1)

match_indices(hay, needle) == MatchIndicesFrom(hay, needle, 0)

\* ---------------------------------------------------------------- values
\* impl Into<PaneId> for &PaneIdHashable
into_PaneId(h) ==
    IF h.is_plugin THEN [kind |-> "Plugin", id |-> h.pane_id]
    ELSE [kind |-> "Terminal", id |-> h.pane_id]

PaneIdHashable_plugin(pane_id) == [pane_id |-> pane_id, is_plugin |-> TRUE]

PaneIdHashable_terminal(pane_id) == [pane_id |-> pane_id, is_plugin |-> FALSE]

\* Text::new and Text::color_range: the text and the ranges coloured so far
Text_new(s) == [text |-> s, ranges |-> <<>>]

color_range(text, level, from, to) ==
    [text EXCEPT !.ranges = Append(@, [level |-> level, from |-> from, to |-> to])]

Match_new(pane_id, text) ==
    [pane_id |-> pane_id, text |-> text, selected_for_extraction |-> FALSE]

toggle_mark_for_extraction(m) ==
    [m EXCEPT !.selected_for_extraction = ~ m.selected_for_extraction]

\* ---------------------------------------------------------------- state
VARIABLES
    filter,                 \* State.filter
    tabs,                   \* State.tabs
    panes,                  \* State.panes, its entries in iteration order
    current_matches,        \* State.current_matches
    selected_tab_index,     \* State.selected_tab_index
    selected_match_index,   \* State.selected_match_index
    arm,                    \* the match arm of update that handled the last event
    should_render,          \* the value the last call of update returned
    host_calls,             \* the host commands the last call of update issued
    advances                \* length of the run of advance keys (all Tab or all Down)
                            \* that ends with the last event and began at cursor None

vars == <<filter, tabs, panes, current_matches, selected_tab_index,
          selected_match_index, arm, should_render, host_calls, advances>>

\* #[derive(Default)] State, before any event
Init ==
    /\ filter = <<>>
    /\ tabs = <<>>
    /\ panes = <<>>
    /\ current_matches = <<>>
    /\ selected_tab_index = None
    /\ selected_match_index = None
    /\ arm = "load"
    /\ should_render = FALSE
    /\ host_calls = <<>>
    /\ advances = 0

\* ---------------------------------------------------------------- impl State
\* lines 321-323: one color_range call per match index
RECURSIVE ColorMatches(_, _, _)
ColorMatches(text, matches, filter_len) ==
    IF matches = <<>> THEN text
    ELSE ColorMatches(color_range(text, 3, Head(matches), Head(matches) + filter_len),
                      Tail(matches), filter_len)

\* lines 316-326: the loop over the entries of self.panes
RECURSIVE SearchPanes(_, _, _, _)
SearchPanes(acc, ps, filter_len, lc_filter) ==
    IF ps = <<>> THEN acc
    ELSE LET pane_id == Head(ps).key
             pane_title == Head(ps).value
             lc_pane_title == to_lowercase(pane_title)
             matches == match_indices(lc_pane_title, lc_filter)
         IN  SearchPanes(
                 IF matches # <<>>
                 THEN Append(acc, Match_new(into_PaneId(pane_id),
                                 ColorMatches(Text_new(pane_title), matches, filter_len)))
                 ELSE acc,
                 Tail(ps), filter_len, lc_filter)

\* trigger_search without the clear of line 313
trigger_search_no_clear(matches, f, ps) ==
    SearchPanes(matches, ps, chars_count(f), to_lowercase(f))

\* trigger_search carrying the marks over to the panes that still match
trigger_search_keeps_marks(matches, f, ps) ==
    LET fresh == SearchPanes(<<>>, ps, chars_count(f), to_lowercase(f))
    IN  [k \in 1..Len(fresh) |->
            IF \E j \in 1..Len(matches) :
                  matches[j].pane_id = fresh[k].pane_id /\ matches[j].selected_for_extraction
            THEN toggle_mark_for_extraction(fresh[k])
            ELSE fresh[k]]

\* State::trigger_search: the new current_matches, from the old one, the
\* filter and the panes
trigger_search(matches, f, ps) ==
    SearchPanes(<<>>, ps, chars_count(f), to_lowercase(f))

\* clear_search without line 331
clear_search_keeps_index(f, matches, index) ==
    [filter |-> <<>>, current_matches |-> <<>>, selected_match_index |-> index]

\* State::clear_search: the new (filter, current_matches, selected_match_index)
clear_search(f, matches, index) ==
    [filter |-> <<>>, current_matches |-> <<>>, selected_match_index |-> None]

\* toggle_mark_selected_for_extraction setting the mark instead of flipping it
toggle_mark_selected_for_extraction_sets(matches, index) ==
    IF index.some /\ index.v < Len(matches)
    THEN [matches EXCEPT ![index.v + 1].selected_for_extraction = TRUE]
    ELSE matches

\* State::toggle_mark_selected_for_extraction: the new current_matches
toggle_mark_selected_for_extraction(matches, index) ==
    IF index.some /\ index.v < Len(matches)
    THEN [matches EXCEPT ![index.v + 1] = toggle_mark_for_extraction(@)]
    ELSE matches

IsMarked(m) == m.selected_for_extraction

\* panes_to_extract without the fallback to every match
panes_to_extract_marked_only(matches) ==
    LET marked == SelectSeq(matches, IsMarked)
    IN  [k \in 1..Len(marked) |-> marked[k].pane_id]

\* State::panes_to_extract
panes_to_extract(matches) ==
    LET marked == SelectSeq(matches, IsMarked)
        pane_ids_selected_for_extraction == [k \in 1..Len(marked) |-> marked[k].pane_id]
    IN  IF pane_ids_selected_for_extraction = <<>>
        THEN [k \in 1..Len(matches) |-> matches[k].pane_id]
        ELSE pane_ids_selected_for_extraction

\* ---------------------------------------------------------------- host commands
break_panes_to_new_tab(pane_ids, new_tab_name, should_change_focus) ==
    [command |-> "break_panes_to_new_tab", pane_ids |-> pane_ids,
     new_tab_name |-> new_tab_name, tab_index |-> 0,
     should_change_focus |-> should_change_focus]

break_panes_to_tab_with_index(pane_ids, tab_index, should_change_focus) ==
    [command |-> "break_panes_to_tab_with_index", pane_ids |-> pane_ids,
     new_tab_name |-> <<>>, tab_index |-> tab_index,
     should_change_focus |-> should_change_focus]

\* ---------------------------------------------------------------- HashMap
\* HashMap::insert on the entries of a map
RECURSIVE HashMap_insert(_, _, _)
HashMap_insert(m, k, v) ==
    IF m = <<>> THEN <<[key |-> k, value |-> v]>>
    ELSE IF Head(m).key = k THEN <<[key |-> k, value |-> v]>> \o Tail(m)
    ELSE <<Head(m)>> \o HashMap_insert(Tail(m), k, v)

\* lines 95-107: the loop over the panes of the manifest
RECURSIVE InsertSelectable(_, _)
InsertSelectable(m, infos) ==
    IF infos = <<>> THEN m
    ELSE LET pane_info == Head(infos)
         IN  IF ~ pane_info.is_selectable
             THEN InsertSelectable(m, Tail(infos))
             ELSE IF pane_info.is_plugin
             THEN InsertSelectable(
                      HashMap_insert(m, PaneIdHashable_plugin(pane_info.id), pane_info.title),
                      Tail(infos))
             ELSE InsertSelectable(
                      HashMap_insert(m, PaneIdHashable_terminal(pane_info.id), pane_info.title),
                      Tail(infos))

\* ---------------------------------------------------------------- update
Option_map_add1(o) == IF o.some THEN Some(o.v + 1) ELSE None

Option_map_saturating_sub1(o) == IF o.some THEN Some(saturating_sub(o.v, 1)) ELSE None

\* lines 161-167: the Selection Cursor after a Down key
Down_index(index, matches) ==
    IF ~ index.some /\ matches # <<>> THEN Some(0)
    ELSE IF index = Some(saturating_sub(Len(matches), 1)) THEN None
    ELSE Option_map_add1(index)

\* the Up arm without the Some(0) case of lines 173-174
Up_index_saturates(index, matches) ==
    IF ~ index.some /\ matches # <<>> THEN Some(saturating_sub(Len(matches), 1))
    ELSE Option_map_saturating_sub1(index)

\* lines 171-177: the Selection Cursor after an Up key
Up_index(index, matches) ==
    IF ~ index.some /\ matches # <<>> THEN Some(saturating_sub(Len(matches), 1))
    ELSE IF index = Some(0) THEN None
    ELSE Option_map_saturating_sub1(index)

\* String::pop
pop(s) == IF s = <<>> THEN <<>> ELSE SubSeq(s, 1, Len(s) - 1)

\* Event::ModeUpdate (lines 83-84)
ModeUpdate ==
    /\ arm' = "ModeUpdate"
    /\ should_render' = FALSE
    /\ host_calls' = <<>>
    /\ advances' = 0
    /\ UNCHANGED <<filter, tabs, panes, current_matches, selected_tab_index,
                   selected_match_index>>

\* TabUpdate without the reset of lines 88-90
TabUpdate_keeps_cursor(tab_info) ==
    /\ tabs' = [k \in 1..Len(tab_info) |-> tab_info[k].name]
    /\ arm' = "TabUpdate"
    /\ should_render' = TRUE
    /\ host_calls' = <<>>
    /\ advances' = 0
    /\ UNCHANGED <<filter, panes, current_matches, selected_tab_index, selected_match_index>>

\* TabUpdate comparing only the lengths of the old and the new list
TabUpdate_compares_lengths(tab_info) ==
    LET previous_tabs == tabs
        new_tabs == [k \in 1..Len(tab_info) |-> tab_info[k].name]
    IN  /\ tabs' = new_tabs
        /\ selected_tab_index' =
              IF Len(previous_tabs) # Len(new_tabs) THEN None ELSE selected_tab_index
        /\ arm' = "TabUpdate"
        /\ should_render' = TRUE
        /\ host_calls' = <<>>
        /\ advances' = 0
        /\ UNCHANGED <<filter, panes, current_matches, selected_match_index>>

\* Event::TabUpdate (lines 85-92)
TabUpdate(tab_info) ==
    LET previous_tabs == tabs
        new_tabs == [k \in 1..Len(tab_info) |-> tab_info[k].name]
    IN  /\ tabs' = new_tabs
        /\ selected_tab_index' = IF previous_tabs # new_tabs THEN None ELSE selected_tab_index
        /\ arm' = "TabUpdate"
        /\ should_render' = TRUE
        /\ host_calls' = <<>>
        /\ advances' = 0
        /\ UNCHANGED <<filter, panes, current_matches, selected_match_index>>

\* PaneUpdate without the clear of line 94
PaneUpdate_no_clear(manifest) ==
    /\ panes' = InsertSelectable(panes, manifest)
    /\ arm' = "PaneUpdate"
    /\ should_render' = FALSE
    /\ host_calls' = <<>>
    /\ advances' = 0
    /\ UNCHANGED <<filter, tabs, current_matches, selected_tab_index,
                   selected_match_index>>

\* Event::PaneUpdate (lines 93-108); manifest is the panes of the manifest in
\* the order the two loops visit them.  The map is kept as its entries in
\* iteration order; the code does not fix that order, and every order of
\* the entries is the result of some manifest.
PaneUpdate(manifest) ==
    /\ panes' = InsertSelectable(<<>>, manifest)
    /\ arm' = "PaneUpdate"
    /\ should_render' = FALSE
    /\ host_calls' = <<>>
    /\ advances' = 0
    /\ UNCHANGED <<filter, tabs, current_matches, selected_tab_index,
                   selected_match_index>>

\* BareKey::Char, no modifiers (lines 111-115)
KeyChar(character) ==
    /\ Len(filter) < MaxFilter
    /\ filter' = Append(filter, character)
    /\ current_matches' = trigger_search(current_matches, filter', panes)
    /\ arm' = "Char"
    /\ should_render' = TRUE
    /\ host_calls' = <<>>
    /\ advances' = 0
    /\ UNCHANGED <<tabs, panes, selected_tab_index, selected_match_index>>

\* the Backspace arm without the clear_search of lines 120-122
KeyBackspace_skips_clear ==
    LET popped == pop(filter)
    IN  /\ filter' = popped
        /\ current_matches' =
              IF popped # <<>> THEN trigger_search(current_matches, popped, panes)
              ELSE current_matches
        /\ arm' = "Backspace"
        /\ should_render' = TRUE
        /\ host_calls' = <<>>
        /\ advances' = 0
        /\ UNCHANGED <<tabs, panes, selected_tab_index, selected_match_index>>

\* the Backspace arm calling trigger_search whatever the filter
KeyBackspace_always_searches ==
    LET popped == pop(filter)
    IN  /\ filter' = popped
        /\ current_matches' = trigger_search(current_matches, popped, panes)
        /\ arm' = "Backspace"
        /\ should_render' = TRUE
        /\ host_calls' = <<>>
        /\ advances' = 0
        /\ UNCHANGED <<tabs, panes, selected_tab_index, selected_match_index>>

\* BareKey::Backspace, no modifiers (lines 116-124)
KeyBackspace ==
    LET popped == pop(filter)
        cleared == clear_search(popped, current_matches, selected_match_index)
    IN  /\ IF popped # <<>>
           THEN /\ filter' = popped
                /\ current_matches' = trigger_search(current_matches, popped, panes)
                /\ UNCHANGED selected_match_index
           ELSE /\ filter' = cleared.filter
                /\ current_matches' = cleared.current_matches
                /\ selected_match_index' = cleared.selected_match_index
        /\ arm' = "Backspace"
        /\ should_render' = TRUE
        /\ host_calls' = <<>>
        /\ advances' = 0
        /\ UNCHANGED <<tabs, panes, selected_tab_index>>

\* the Enter arm with clear_search called before the host command is built
KeyEnter_clears_first ==
    LET cleared == clear_search(filter, current_matches, selected_match_index)
    IN  /\ IF current_matches # <<>>
           THEN /\ host_calls' =
                      IF ~ selected_tab_index.some
                      THEN <<break_panes_to_new_tab(
                               panes_to_extract(current_matches), cleared.filter, FALSE)>>
                      ELSE <<break_panes_to_tab_with_index(
                               panes_to_extract(cleared.current_matches),
                               selected_tab_index.v, FALSE)>>
                /\ filter' = cleared.filter
                /\ current_matches' = cleared.current_matches
                /\ selected_match_index' = cleared.selected_match_index
           ELSE /\ host_calls' = <<>>
                /\ UNCHANGED <<filter, current_matches, selected_match_index>>
        /\ arm' = "Enter"
        /\ should_render' = TRUE
        /\ advances' = 0
        /\ UNCHANGED <<tabs, panes, selected_tab_index>>

\* the Enter arm with clear_search outside the test of line 126
KeyEnter_always_clears ==
    LET cleared == clear_search(filter, current_matches, selected_match_index)
    IN  /\ host_calls' =
              IF current_matches = <<>> THEN <<>>
              ELSE IF ~ selected_tab_index.some
              THEN <<break_panes_to_new_tab(
                       panes_to_extract(current_matches), filter, FALSE)>>
              ELSE <<break_panes_to_tab_with_index(
                       panes_to_extract(current_matches), selected_tab_index.v, FALSE)>>
        /\ filter' = cleared.filter
        /\ current_matches' = cleared.current_matches
        /\ selected_match_index' = cleared.selected_match_index
        /\ arm' = "Enter"
        /\ should_render' = TRUE
        /\ advances' = 0
        /\ UNCHANGED <<tabs, panes, selected_tab_index>>

\* the Enter arm issuing the new-tab command also when a tab is selected
KeyEnter_issues_both ==
    LET cleared == clear_search(filter, current_matches, selected_match_index)
        new_tab == break_panes_to_new_tab(panes_to_extract(current_matches), filter, FALSE)
    IN  /\ IF current_matches # <<>>
           THEN /\ host_calls' =
                      IF ~ selected_tab_index.some
                      THEN <<new_tab>>
                      ELSE <<new_tab,
                             break_panes_to_tab_with_index(
                               panes_to_extract(current_matches), selected_tab_index.v,
                               FALSE)>>
                /\ filter' = cleared.filter
                /\ current_matches' = cleared.current_matches
                /\ selected_match_index' = cleared.selected_match_index
           ELSE /\ host_calls' = <<>>
                /\ UNCHANGED <<filter, current_matches, selected_match_index>>
        /\ arm' = "Enter"
        /\ should_render' = TRUE
        /\ advances' = 0
        /\ UNCHANGED <<tabs, panes, selected_tab_index>>

\* BareKey::Enter, no modifiers (lines 125-149)
KeyEnter ==
    LET should_focus == FALSE
        cleared == clear_search(filter, current_matches, selected_match_index)
    IN  /\ IF current_matches # <<>>
           THEN /\ host_calls' =
                      IF ~ selected_tab_index.some
                      THEN <<break_panes_to_new_tab(
                               panes_to_extract(current_matches), filter, should_focus)>>
                      ELSE <<break_panes_to_tab_with_index(
                               panes_to_extract(current_matches), selected_tab_index.v,
                               should_focus)>>
                /\ filter' = cleared.filter
                /\ current_matches' = cleared.current_matches
                /\ selected_match_index' = cleared.selected_match_index
           ELSE /\ host_calls' = <<>>
                /\ UNCHANGED <<filter, current_matches, selected_match_index>>
        /\ arm' = "Enter"
        /\ should_render' = TRUE
        /\ advances' = 0
        /\ UNCHANGED <<tabs, panes, selected_tab_index>>

\* BareKey::Tab, no modifiers (lines 150-159)
KeyTab ==
    /\ selected_tab_index' =
         IF ~ selected_tab_index.some /\ tabs # <<>> THEN Some(0)
         ELSE IF selected_tab_index = Some(saturating_sub(Len(tabs), 1)) THEN None
         ELSE Option_map_add1(selected_tab_index)
    /\ arm' = "Tab"
    /\ should_render' = TRUE
    /\ host_calls' = <<>>
    /\ advances' = IF ~ selected_tab_index.some THEN 1
                   ELSE IF arm = "Tab" /\ advances > 0 THEN advances + 1
                   ELSE 0
    /\ UNCHANGED <<filter, tabs, panes, current_matches, selected_match_index>>

\* the Down arm wrapping at len() instead of len() - 1
KeyDown_wraps_late ==
    /\ selected_match_index' =
         IF ~ selected_match_index.some /\ current_matches # <<>> THEN Some(0)
         ELSE IF selected_match_index = Some(Len(current_matches)) THEN None
         ELSE Option_map_add1(selected_match_index)
    /\ selected_match_index'.v <= MaxIndex
    /\ arm' = "Down"
    /\ should_render' = TRUE
    /\ host_calls' = <<>>
    /\ advances' = IF ~ selected_match_index.some THEN 1
                   ELSE IF arm = "Down" /\ advances > 0 THEN advances + 1
                   ELSE 0
    /\ UNCHANGED <<filter, tabs, panes, current_matches, selected_tab_index>>

\* BareKey::Down, no modifiers (lines 160-169)
KeyDown ==
    /\ selected_match_index' = Down_index(selected_match_index, current_matches)
    /\ selected_match_index'.v <= MaxIndex
    /\ arm' = "Down"
    /\ should_render' = TRUE
    /\ host_calls' = <<>>
    /\ advances' = IF ~ selected_match_index.some THEN 1
                   ELSE IF arm = "Down" /\ advances > 0 THEN advances + 1
                   ELSE 0
    /\ UNCHANGED <<filter, tabs, panes, current_matches, selected_tab_index>>

\* the Up arm entering the list at len() instead of len() - 1
KeyUp_enters_past_end ==
    /\ selected_match_index' =
         IF ~ selected_match_index.some /\ current_matches # <<>>
         THEN Some(Len(current_matches))
         ELSE IF selected_match_index = Some(0) THEN None
         ELSE Option_map_saturating_sub1(selected_match_index)
    /\ arm' = "Up"
    /\ should_render' = TRUE
    /\ host_calls' = <<>>
    /\ advances' = 0
    /\ UNCHANGED <<filter, tabs, panes, current_matches, selected_tab_index>>

\* BareKey::Up, no modifiers (lines 170-179)
KeyUp ==
    /\ selected_match_index' = Up_index(selected_match_index, current_matches)
    /\ arm' = "Up"
    /\ should_render' = TRUE
    /\ host_calls' = <<>>
    /\ advances' = 0
    /\ UNCHANGED <<filter, tabs, panes, current_matches, selected_tab_index>>

\* BareKey::Right | BareKey::Left, no modifiers (lines 180-183)
KeyRightLeft(bare_key) ==
    /\ bare_key \in {"Right", "Left"}
    /\ current_matches' =
         toggle_mark_selected_for_extraction(current_matches, selected_match_index)
    /\ arm' = bare_key
    /\ should_render' = TRUE
    /\ host_calls' = <<>>
    /\ advances' = 0
    /\ UNCHANGED <<filter, tabs, panes, selected_tab_index, selected_match_index>>

\* the catch-all arm asking for a redraw
KeyOther_renders(bare_key, has_no_modifiers) ==
    /\ ~ has_no_modifiers \/ bare_key = "Esc"
    /\ arm' = "_"
    /\ should_render' = TRUE
    /\ host_calls' = <<>>
    /\ advances' = 0
    /\ UNCHANGED <<filter, tabs, panes, current_matches, selected_tab_index,
                   selected_match_index>>

\* any other key: one with a modifier, or one no arm matches (line 184)
KeyOther(bare_key, has_no_modifiers) ==
    /\ ~ has_no_modifiers \/ bare_key = "Esc"
    /\ arm' = "_"
    /\ should_render' = FALSE
    /\ host_calls' = <<>>
    /\ advances' = 0
    /\ UNCHANGED <<filter, tabs, panes, current_matches, selected_tab_index,
                   selected_match_index>>

\* the inputs of the events
TabInfos == SeqsUpTo({ [name |-> n] : n \in TabNames }, MaxTabs)

PaneManifests == Arrangements(PaneInfos, MaxManifest)

Next ==
    \/ ModeUpdate
    \/ \E tab_info \in TabInfos : TabUpdate(tab_info)
    \/ \E manifest \in PaneManifests : PaneUpdate(manifest)
    \/ \E character \in Chars : KeyChar(character)
    \/ KeyBackspace
    \/ KeyEnter
    \/ KeyTab
    \/ KeyDown
    \/ KeyUp
    \/ \E bare_key \in {"Right", "Left"} : KeyRightLeft(bare_key)
    \/ \E bare_key \in BareKeys, has_no_modifiers \in BOOLEAN :
          KeyOther(bare_key, has_no_modifiers)

Spec == Init /\ [][Next]_vars

\* the events that reach the tab list and its cursor (lines 85-92, 150-159),
\* with a search running beside them
NextTabs ==
    \/ \E tab_info \in TabInfos : TabUpdate(tab_info)
    \/ \E manifest \in PaneManifests : PaneUpdate(manifest)
    \/ \E character \in Chars : KeyChar(character)
    \/ KeyTab
    \/ KeyDown

SpecTabs == Init /\ [][NextTabs]_vars

\* the events that reach the pane inventory and the match list built from it
\* (lines 93-108, 111-115, 160-169, 180-183)
NextInventory ==
    \/ \E manifest \in PaneManifests : PaneUpdate(manifest)
    \/ \E character \in Chars : KeyChar(character)
    \/ KeyDown
    \/ \E bare_key \in {"Right", "Left"} : KeyRightLeft(bare_key)

SpecInventory == Init /\ [][NextInventory]_vars

\* ================================================================ properties
\* the last event rebuilt the match list (lines 113 and 119)
Recomputed == arm = "Char" \/ (arm = "Backspace" /\ filter # <<>>)

InRange(index, list) == ~ index.some \/ index.v < Len(list)

Contains(hay, needle) == \E i \in 0..Len(hay) : OccursAt(hay, needle, i)

\* C1: in every reachable state the Selection Cursor is None or an index
\* strictly less than the length of the current match list.
C1_SelectionCursorInRange == InRange(selected_match_index, current_matches)

\* C2: in every reachable state the Destination Cursor is None or an index
\* strictly less than the length of the current tab list.
C2_DestinationCursorInRange == InRange(selected_tab_index, tabs)

\* the Destination Cursor sits on the last of at least two tabs after Tab keys
C2_Witness ==
    /\ arm = "Tab"
    /\ Len(tabs) >= 2
    /\ selected_tab_index = Some(Len(tabs) - 1)

\* C3: after a keystroke that rebuilt the match list, the list holds exactly
\* one Match for each pane of the inventory whose lowercased title contains
\* the lowercased filter and no Match for any other pane; with an empty
\* filter the match list is empty.
C3_MatchesAreTheContainingPanes ==
    /\ Recomputed =>
         /\ \A k \in 1..Len(panes) :
               Cardinality({ j \in 1..Len(current_matches) :
                               current_matches[j].pane_id = into_PaneId(panes[k].key) })
                 = IF Contains(to_lowercase(panes[k].value), to_lowercase(filter))
                   THEN 1 ELSE 0
         /\ \A j \in 1..Len(current_matches) :
               \E k \in 1..Len(panes) :
                  current_matches[j].pane_id = into_PaneId(panes[k].key)
    /\ filter = <<>> => current_matches = <<>>

\* a keystroke left one of two panes matching
C3_Witness ==
    /\ arm = "Char"
    /\ Len(panes) = 2
    /\ Len(current_matches) = 1

\* C4: the highlighted ranges of every Match are exactly the ranges [s, s + L)
\* for every character offset s at which the lowercased filter occurs in the
\* lowercased title, overlapping occurrences included, L being the number of
\* characters of the filter.
C4_RangesAreAllOccurrences ==
    \A j \in 1..Len(current_matches) :
        LET text == current_matches[j].text
            lc_title == to_lowercase(text.text)
            lc_filter == to_lowercase(filter)
        IN  { <<text.ranges[r].from, text.ranges[r].to>> : r \in 1..Len(text.ranges) }
              = { <<s, s + Len(filter)>> :
                    s \in { i \in 0..Len(lc_title) : OccursAt(lc_title, lc_filter, i) } }

\* C5: after every keystroke that rebuilt the match list every Match is
\* unmarked, and rebuilding it once more from the same filter and panes gives
\* the same list.
C5_RecomputeIdempotentUnmarked ==
    Recomputed =>
        /\ \A j \in 1..Len(current_matches) : ~ current_matches[j].selected_for_extraction
        /\ trigger_search(current_matches, filter, panes) = current_matches

\* a rebuild while the Selection Cursor pointed into a list of two matches
C5_Witness ==
    /\ Recomputed
    /\ Len(current_matches) = 2
    /\ selected_match_index.some

\* C6: k consecutive advances from None over an unchanged list of N > 0
\* elements leave the cursor at Some(k - 1) for k <= N and at None for
\* k = N + 1, for Tab over the tabs and for Down over the matches; over an
\* empty list an advance from None leaves None.
C6_CyclicAdvance ==
    /\ (arm = "Tab" /\ advances > 0) =>
          IF tabs = <<>> THEN selected_tab_index = None
          ELSE /\ advances <= Len(tabs) + 1
               /\ selected_tab_index =
                    IF advances <= Len(tabs) THEN Some(advances - 1) ELSE None
    /\ (arm = "Down" /\ advances > 0) =>
          IF current_matches = <<>> THEN selected_match_index = None
          ELSE /\ advances <= Len(current_matches) + 1
               /\ selected_match_index =
                    IF advances <= Len(current_matches) THEN Some(advances - 1) ELSE None

\* N + 1 Down keys over N >= 2 matches brought the Selection Cursor back to None
C6_Witness ==
    /\ arm = "Down"
    /\ Len(current_matches) >= 2
    /\ advances = Len(current_matches) + 1
    /\ selected_match_index = None

\* C7: an Up key takes the Selection Cursor from None to Some(N - 1) when
\* N > 0, from Some(0) to None, from any other in-range Some(i) to Some(i - 1),
\* and leaves it None when N = 0; the matches with their marks, the filter
\* and the Destination Cursor are unchanged.
C7_UpRetreats ==
    [][arm' = "Up" =>
         LET N == Len(current_matches)
             index == selected_match_index
         IN  /\ (~ index.some /\ N > 0) => selected_match_index' = Some(N - 1)
             /\ (~ index.some /\ N = 0) => selected_match_index' = None
             /\ index = Some(0) => selected_match_index' = None
             /\ (index.some /\ index.v > 0 /\ index.v < N) =>
                    selected_match_index' = Some(index.v - 1)
             /\ UNCHANGED <<current_matches, filter, selected_tab_index>>]_vars

\* an Up key put the Selection Cursor on the last of two matches
C7_Witness ==
    /\ arm = "Up"
    /\ Len(current_matches) = 2
    /\ selected_match_index = Some(1)

\* the 1-based positions of the marked matches
MarkedPositions == { i \in 1..Len(current_matches) : current_matches[i].selected_for_extraction }

\* C8: the extraction targets are the pane ids of the marked matches in list
\* order when a match is marked, and the pane ids of all matches otherwise.
C8_ExtractionTargets ==
    LET targets == panes_to_extract(current_matches)
    IN  IF MarkedPositions # {}
        THEN /\ Len(targets) = Cardinality(MarkedPositions)
             /\ \A i \in MarkedPositions :
                   targets[Cardinality({ h \in MarkedPositions : h <= i })]
                     = current_matches[i].pane_id
        ELSE /\ Len(targets) = Len(current_matches)
             /\ \A i \in 1..Len(current_matches) : targets[i] = current_matches[i].pane_id

\* only the second of two matches is marked
C8_Witness ==
    /\ Len(current_matches) = 2
    /\ MarkedPositions = {2}

\* C9: an Enter key over a non-empty match list issues exactly one host
\* command, built from the state before the key: a new tab named as the
\* filter when the Destination Cursor is None, the tab at the cursor's index
\* otherwise, with the extraction targets and without a focus change.
C9_EnterIssuesOneCommand ==
    [][(arm' = "Enter" /\ current_matches # <<>>) =>
         host_calls' =
           << IF ~ selected_tab_index.some
              THEN [command |-> "break_panes_to_new_tab",
                    pane_ids |-> panes_to_extract(current_matches),
                    new_tab_name |-> filter, tab_index |-> 0,
                    should_change_focus |-> FALSE]
              ELSE [command |-> "break_panes_to_tab_with_index",
                    pane_ids |-> panes_to_extract(current_matches),
                    new_tab_name |-> <<>>, tab_index |-> selected_tab_index.v,
                    should_change_focus |-> FALSE] >>]_vars

\* Enter moved two panes to the tab at index 1
C9_Witness ==
    /\ arm = "Enter"
    /\ Len(host_calls) = 1
    /\ host_calls[1].command = "break_panes_to_tab_with_index"
    /\ host_calls[1].tab_index = 1
    /\ Len(host_calls[1].pane_ids) = 2

\* C10: after an Enter key over a non-empty match list the filter and the
\* match list are empty and the Selection Cursor is None; the Destination
\* Cursor, the tabs and the panes are as before the key.
C10_EnterClearsSearch ==
    [][(arm' = "Enter" /\ current_matches # <<>>) =>
         /\ filter' = <<>>
         /\ current_matches' = <<>>
         /\ selected_match_index' = None
         /\ UNCHANGED <<selected_tab_index, tabs, panes>>]_vars

\* Enter issued a command with a destination tab selected; the search is cleared
C10_Witness ==
    /\ arm = "Enter"
    /\ host_calls # <<>>
    /\ selected_tab_index.some
    /\ panes # <<>>
    /\ filter = <<>>
    /\ selected_match_index = None

\* C11: an Enter key over an empty match list issues no host command and
\* leaves the filter, the match list, both cursors, the tabs and the panes
\* as they were.
C11_EnterOnNoMatches ==
    [][(arm' = "Enter" /\ current_matches = <<>>) =>
         /\ host_calls' = <<>>
         /\ UNCHANGED <<filter, current_matches, selected_match_index,
                        selected_tab_index, tabs, panes>>]_vars

\* Enter was pressed with a filter that matches nothing and a stored inventory
C11_Witness ==
    /\ arm = "Enter"
    /\ host_calls = <<>>
    /\ filter # <<>>
    /\ panes # <<>>

\* C12: a Backspace key removes exactly the last character of the filter (an
\* empty filter stays empty); whenever the filter is empty afterwards the
\* match list is empty and the Selection Cursor is None; the Destination
\* Cursor, the tabs and the panes are unchanged.
C12_BackspacePops ==
    [][arm' = "Backspace" =>
         /\ IF filter = <<>> THEN filter' = <<>>
            ELSE /\ Len(filter') = Len(filter) - 1
                 /\ \A k \in 1..Len(filter') : filter'[k] = filter[k]
         /\ filter' = <<>> => (current_matches' = <<>> /\ selected_match_index' = None)
         /\ UNCHANGED <<selected_tab_index, tabs, panes>>]_vars

\* Backspace emptied the filter while a destination tab was selected
C12_Witness ==
    /\ arm = "Backspace"
    /\ filter = <<>>
    /\ current_matches = <<>>
    /\ selected_tab_index.some
    /\ panes # <<>>

SelectableEntries(manifest) ==
    { [key |-> [pane_id |-> manifest[k].id, is_plugin |-> manifest[k].is_plugin],
       value |-> manifest[k].title] :
         k \in { j \in 1..Len(manifest) : manifest[j].is_selectable } }

C15_LeftRightToggle ==
    [][arm' \in {"Left", "Right"} =>
         /\ (~ selected_match_index.some \/ selected_match_index.v < Len(current_matches)) =>
              /\ Len(current_matches') = Len(current_matches)
              /\ \A j \in 1..Len(current_matches) :
                    /\ current_matches'[j].pane_id = current_matches[j].pane_id
                    /\ current_matches'[j].text = current_matches[j].text
                    /\ current_matches'[j].selected_for_extraction =
                         IF selected_match_index = Some(j - 1)
                         THEN ~ current_matches[j].selected_for_extraction
                         ELSE current_matches[j].selected_for_extraction
         /\ UNCHANGED <<filter, selected_match_index, selected_tab_index, tabs, panes>>]_vars

\* a Left key removed the mark of the selected second match
C15_Witness ==
    /\ arm = "Left"
    /\ Len(current_matches) = 2
    /\ selected_match_index = Some(1)
    /\ current_matches[1].selected_for_extraction
    /\ ~ current_matches[2].selected_for_extraction

\* C16: a key with a modifier or a key no arm matches changes nothing of the
\* State, issues no host command and asks for no redraw; every other key arm
\* asks for a redraw.
C16_IgnoredKeys ==
    [][/\ arm' = "_" =>
            /\ UNCHANGED <<filter, current_matches, selected_match_index,
                           selected_tab_index, tabs, panes>>
            /\ host_calls' = <<>>
            /\ should_render' = FALSE
       /\ arm' \in {"Char", "Backspace", "Enter", "Tab", "Down", "Up", "Right", "Left"} =>
            should_render' = TRUE]_vars

\* an ignored key arrived while matches were listed, one of them selected
C16_Witness ==
    /\ arm = "_"
    /\ ~ should_render
    /\ current_matches # <<>>
    /\ selected_match_index.some

\* C17: a host command is issued only by an Enter key, and at most one per
\* event.
C17_CommandsOnlyOnEnter ==
    /\ Len(host_calls) <= 1
    /\ host_calls # <<>> => arm = "Enter"

\* Enter issued the command that creates a tab
C17_Witness ==
    /\ arm = "Enter"
    /\ Len(host_calls) = 1
    /\ host_calls[1].command = "break_panes_to_new_tab"

\* C18: whenever the filter is empty the match list is empty and the
\* Selection Cursor is None; a new-tab command never carries an empty name
\* and every command carries at least one pane.
C18_EmptyFilterNoMatches ==
    /\ filter = <<>> => (current_matches = <<>> /\ selected_match_index = None)
    /\ \A c \in 1..Len(host_calls) :
          /\ host_calls[c].pane_ids # <<>>
          /\ host_calls[c].command = "break_panes_to_new_tab" =>
                host_calls[c].new_tab_name # <<>>

\* Backspace emptied the filter over a stored inventory
C18_Witness ==
    /\ arm = "Backspace"
    /\ filter = <<>>
    /\ panes # <<>>
    /\ ~ selected_tab_index.some

\* C19: every pane id a command carries is a key of the inventory at the
\* moment of the Enter key that issued it.
C19_TargetsAreInInventory ==
    \A c \in 1..Len(host_calls) :
       \A t \in 1..Len(host_calls[c].pane_ids) :
          \E k \in 1..Len(panes) : into_PaneId(panes[k].key) = host_calls[c].pane_ids[t]

\* C20: over a fixed match list, with the Selection Cursor None or in range,
\* an Up key undoes a Down key and a Down key undoes an Up key.
C20_DownUpInverse ==
    [][/\ (arm' = "Down" /\ InRange(selected_match_index, current_matches)) =>
            Up_index(selected_match_index', current_matches') = selected_match_index
       /\ (arm' = "Up" /\ InRange(selected_match_index, current_matches)) =>
            Down_index(selected_match_index', current_matches') = selected_match_index]_vars

\* a Down key moved the Selection Cursor from the first to the second match
C20_Witness ==
    /\ arm = "Down"
    /\ advances = 2
    /\ Len(current_matches) = 2
    /\ selected_match_index = Some(1)

====
